---- MODULE Spec2Model ----
(***************************************************************************)
(* Model of attrition_dashboard.py: a Streamlit script that is re-executed *)
(* from top to bottom on every user interaction.  The state is the cached  *)
(* dataset, the sidebar widgets' values, and what the last execution of    *)
(* the script computed and put on the page.                                *)
(*                                                                         *)
(* Numbers that pandas holds as floats are kept exact: a value is a record *)
(* [nan, num, den], the rational num/den, or NaN when nan is TRUE.         *)
(* Text is a sequence of one-character strings.                            *)
(***************************************************************************)
EXTENDS Integers, Sequences, FiniteSets, TLC

VARIABLES
    csv_file,        \* the rows of WA_Fn-UseC_-HR-Employee-Attrition.csv
    cache,           \* st.cache_data's entry for load_data()
    search_id,       \* sidebar text input
    dept_filter,     \* sidebar multiselect: Department
    role_filter,     \* sidebar multiselect: JobRole
    edu_filter,      \* sidebar multiselect: EducationField
    salary_range,    \* sidebar slider: <<low, high>>
    df,              \* the script's df in the last execution
    filtered_df,     \* the script's filtered_df in the last execution
    total,           \* the script's total (line 122)
    attr_rate,       \* the script's attr_rate (line 123)
    cards,           \* the four metric cards put on the page
    raw_export,      \* the RAW expander: count and download data
    cleaned_export,  \* the CLEANED expander: count and download data
    pdf_file,        \* what generate_pdf returned
    page,            \* the sections the last execution put on the page
    exception        \* the uncaught exception that ended the last execution

vars == <<csv_file, cache, search_id, dept_filter, role_filter, edu_filter,
          salary_range, df, filtered_df, total, attr_rate, cards, raw_export,
          cleaned_export, pdf_file, page, exception>>

-----------------------------------------------------------------------------
(* Bounds and input sets                                                   *)

MaxRows == 3

Num(n) == [nan |-> FALSE, num |-> n, den |-> 1]

Frac(n, d) == [nan |-> FALSE, num |-> n, den |-> d]

NaN == [nan |-> TRUE, num |-> 0, den |-> 1]

\* The employee records a dataset is drawn from.  EmployeeNumber is unique.
Pool ==
    << [EmployeeNumber |-> 1, Department |-> "Sales",
        JobRole |-> "Sales Executive", EducationField |-> "Marketing",
        MonthlyIncome |-> Num(2), Attrition |-> "Yes",
        Age |-> 30, JobSatisfaction |-> 4],
       [EmployeeNumber |-> 2, Department |-> "Research & Development",
        JobRole |-> "Research Scientist", EducationField |-> "Life Sciences",
        MonthlyIncome |-> Num(4), Attrition |-> "No",
        Age |-> 41, JobSatisfaction |-> 2],
       [EmployeeNumber |-> 10, Department |-> "Sales",
        JobRole |-> "Research Scientist", EducationField |-> "Marketing",
        MonthlyIncome |-> Frac(9, 2), Attrition |-> "Yes",
        Age |-> 25, JobSatisfaction |-> 1],
       [EmployeeNumber |-> 12, Department |-> "Research & Development",
        JobRole |-> "Sales Executive", EducationField |-> "Life Sciences",
        MonthlyIncome |-> Num(3), Attrition |-> "No",
        Age |-> 52, JobSatisfaction |-> 3] >>

RECURSIVE Pick(_, _)
Pick(i, S) ==
    IF i > Len(Pool) THEN <<>>
    ELSE (IF i \in S THEN <<Pool[i]>> ELSE <<>>) \o Pick(i + 1, S)

\* The texts a user types into the search box.
SearchTexts == { <<>>, <<"2">>, <<"0", "2">>, <<"1", "0">>, <<" ">> }

\* The slider ends tried when the filter is applied to arbitrary criteria,
\* low above high included.
SalaryEnds == {2, 3, 5}

\* What can go wrong while the script runs: nothing, DataFrame.to_csv
\* raising at line 295, or generate_pdf raising at line 374.
Faults == {"none", "csv", "pdf"}

-----------------------------------------------------------------------------
(* pandas and Python helpers                                               *)

\* Series.unique(): the values that occur in a column.
unique(d, col) == { d[i][col] : i \in 1..Len(d) }

\* Series.isin(values)
isin(v, values) == v \in values

\* a <= b on exact values
Leq(a, b) == a.num * b.den <= b.num * a.den

\* between with the right end left out
between_exclusive(x, left, right) ==
    Leq(Num(left), x) /\ Leq(x, Num(right)) /\ ~Leq(Num(right), x)

\* Series.between(left, right): inclusive on both sides; left and right
\* are the slider's integers.
between(x, left, right) == Leq(Num(left), x) /\ Leq(x, Num(right))

\* Series.min() and Series.max() of MonthlyIncome
income_min(d) ==
    CHOOSE x \in unique(d, "MonthlyIncome") :
        \A y \in unique(d, "MonthlyIncome") : Leq(x, y)

income_max(d) ==
    CHOOSE x \in unique(d, "MonthlyIncome") :
        \A y \in unique(d, "MonthlyIncome") : Leq(y, x)

\* int(x): truncation toward zero
int(x) ==
    IF x.num >= 0 THEN x.num \div x.den ELSE -((-x.num) \div x.den)

Digit(n) == <<"0", "1", "2", "3", "4", "5", "6", "7", "8", "9">>[n + 1]

\* astype(str) of a non-negative integer: its decimal digits
RECURSIVE astype_str(_)
astype_str(n) ==
    IF n < 10 THEN <<Digit(n)>>
    ELSE astype_str(n \div 10) \o <<Digit(n % 10)>>

RECURSIVE SumSeq(_)
SumSeq(s) == IF s = <<>> THEN 0 ELSE Head(s) + SumSeq(Tail(s))

\* Series.mean(): NaN on an empty series, sum / count otherwise
mean(s) == IF Len(s) = 0 THEN NaN ELSE Frac(SumSeq(s), Len(s))

\* x * k on a float: NaN stays NaN
times(x, k) == IF x.nan THEN NaN ELSE Frac(x.num * k, x.den)

Column(d, col) == [i \in 1..Len(d) |-> d[i][col]]

\* (frame['Attrition'] == 'Yes') as a 0/1 series
attrition_yes(d) ==
    [i \in 1..Len(d) |-> IF d[i].Attrition = "Yes" THEN 1 ELSE 0]

\* f"{x:.Nf}": the text "nan" for NaN, else x rounded to N decimals
format(x, places) ==
    [text |-> IF x.nan THEN "nan" ELSE "number", value |-> x, places |-> places]

-----------------------------------------------------------------------------
(* The script, top to bottom                                               *)

\* load_data handing back the frame the last execution narrowed
load_data_narrowed ==
    IF page # <<>> /\ filtered_df # <<>> THEN filtered_df
    ELSE IF cache.loaded THEN cache.value ELSE csv_file

\* load_data() under @st.cache_data: the file is read on the first call and
\* the cached frame is returned on every later one.
load_data == IF cache.loaded THEN cache.value ELSE csv_file

\* The sidebar slider's ends (line 101)
min_sal(d) == int(income_min(d))

max_sal(d) == int(income_max(d))

\* The datasets the CSV file may hold: up to MaxRows records whose incomes
\* give the slider more than one position.
Datasets ==
    { d \in { Pick(1, S) : S \in { T \in SUBSET (1..Len(Pool)) :
                 Cardinality(T) >= 1 /\ Cardinality(T) <= MaxRows } } :
        min_sal(d) < max_sal(d) }

\* The widgets' initial values (lines 77-105)
default_search_id == <<>>

default_dept_filter(d) == unique(d, "Department")

default_role_filter(d) == unique(d, "JobRole")

default_edu_filter(d) == unique(d, "EducationField")

default_salary_range(d) == <<min_sal(d), max_sal(d)>>

\* One row of the boolean mask of lines 108-113
filter_mask(r, depts, roles, edus, sal) ==
    /\ isin(r.Department, depts)
    /\ isin(r.JobRole, roles)
    /\ isin(r.EducationField, edus)
    /\ between(r.MonthlyIncome, sal[1], sal[2])

RECURSIVE TakeAt(_, _, _)
TakeAt(d, keep, i) ==
    IF i > Len(d) THEN <<>>
    ELSE (IF i \in keep THEN <<d[i]>> ELSE <<>>) \o TakeAt(d, keep, i + 1)

\* the mask taken from the global df and applied by position to the frame
apply_filters_positional(d, depts, roles, edus, sal) ==
    TakeAt(d, { i \in 1..Len(load_data) :
                  filter_mask(load_data[i], depts, roles, edus, sal) }, 1)

\* df[mask] (lines 108-113)
apply_filters(d, depts, roles, edus, sal) ==
    SelectSeq(d, LAMBDA r : filter_mask(r, depts, roles, edus, sal))

\* df[df["EmployeeNumber"].astype(str) == search_id] (line 117)
search_override(d, sid) ==
    SelectSeq(d, LAMBDA r : astype_str(r.EmployeeNumber) = sid)

\* the search applied to the already filtered frame instead of df
filtered_view_narrowed(d, sid, depts, roles, edus, sal) ==
    IF sid # <<>>
    THEN search_override(apply_filters(d, depts, roles, edus, sal), sid)
    ELSE apply_filters(d, depts, roles, edus, sal)

\* filtered_df as it stands after line 117; a non-empty text is truthy
filtered_view(d, sid, depts, roles, edus, sal) ==
    IF sid # <<>> THEN search_override(d, sid)
    ELSE apply_filters(d, depts, roles, edus, sal)

\* len(df) where len(filtered_df) is meant
count_rows_raw(fd) == Len(load_data)

\* len(filtered_df) (lines 122, 293, 324)
count_rows(fd) == Len(fd)

\* the rate taken over df where filtered_df is meant
attrition_rate_of_df(fd) == times(mean(attrition_yes(load_data)), 100)

\* (filtered_df['Attrition'] == 'Yes').mean() * 100 (lines 123, 325)
attrition_rate(fd) == times(mean(attrition_yes(fd)), 100)

\* The four metric cards (lines 125-132)
metric_cards(fd) ==
    [total_staff |-> count_rows(fd),
     attrition_rate |-> format(attrition_rate(fd), 1),
     avg_satisfaction |-> format(mean(Column(fd, "JobSatisfaction")), 2),
     avg_age |-> format(mean(Column(fd, "Age")), 0)]

Columns ==
    <<"EmployeeNumber", "Department", "JobRole", "EducationField",
      "MonthlyIncome", "Attrition", "Age", "JobSatisfaction">>

\* DataFrame.to_csv(index=False): a header line and one line per row
to_csv(d) == [header |-> Columns, lines |-> d]

NoData == [header |-> <<>>, lines |-> <<>>]

\* The RAW expander (lines 287-290)
raw_expander(d) == [count |-> Len(d), download |-> to_csv(d)]

\* The CLEANED expander (lines 292-295); the count and the table are on the
\* page before to_csv is called
cleaned_expander(fd, fault) ==
    [count |-> count_rows(fd),
     download |-> IF fault = "csv" THEN NoData ELSE to_csv(fd)]

NoExport == [count |-> 0, download |-> NoData]

insights ==
    << "Employees working overtime show significantly higher attrition.",
       "Highest churn observed in the first 2 years of employment.",
       "Lower monthly income strongly correlates with employee exit.",
       "Longer distance from home increases attrition risk.",
       "Junior-level roles require focused retention strategies." >>

conclusion ==
    "Reducing overtime workload and improving engagement for junior employees should be the top priorities to lower attrition in the next quarter."

\* a report whose insights are left out when the view holds no leaver
generate_pdf_derived(fd) ==
    [built |-> TRUE,
     title |-> "HR Employees Attrition Analysis Report",
     total |-> count_rows(fd),
     attr_rate |-> format(attrition_rate(fd), 2),
     avg_age |-> format(mean(Column(fd, "Age")), 1),
     avg_sat |-> format(mean(Column(fd, "JobSatisfaction")), 2),
     insights |-> IF SumSeq(attrition_yes(fd)) = 0 THEN <<>> ELSE insights,
     conclusion |-> conclusion]

\* generate_pdf(filtered_df): the story handed to doc.build
generate_pdf(fd) ==
    [built |-> TRUE,
     title |-> "HR Employees Attrition Analysis Report",
     total |-> count_rows(fd),
     attr_rate |-> format(attrition_rate(fd), 2),
     avg_age |-> format(mean(Column(fd, "Age")), 1),
     avg_sat |-> format(mean(Column(fd, "JobSatisfaction")), 2),
     insights |-> insights,
     conclusion |-> conclusion]

NoPdf ==
    [built |-> FALSE, title |-> "", total |-> 0, attr_rate |-> format(NaN, 2),
     avg_age |-> format(NaN, 1), avg_sat |-> format(NaN, 2),
     insights |-> <<>>, conclusion |-> ""]

\* The sections of the page in the order the script produces them
Sections ==
    <<"metrics", "charts", "action_plan", "raw_data", "cleaned_data",
      "pdf_download", "footer">>

\* An uncaught exception ends the execution: what was produced before it
\* stays on the page, followed by the exception box.
page_sections(fault) ==
    IF fault = "csv" THEN SubSeq(Sections, 1, 4) \o <<"exception">>
    ELSE IF fault = "pdf" THEN SubSeq(Sections, 1, 5) \o <<"exception">>
    ELSE Sections

\* One execution of the script with the widgets at the given values.
Script(sid, depts, roles, edus, sal, fault) ==
    LET d == load_data
        fd == filtered_view(d, sid, depts, roles, edus, sal)
    IN  /\ csv_file' = csv_file
        /\ cache' = [loaded |-> TRUE, value |-> d]
        /\ search_id' = sid
        /\ dept_filter' = depts
        /\ role_filter' = roles
        /\ edu_filter' = edus
        /\ salary_range' = sal
        /\ df' = d
        /\ filtered_df' = fd
        /\ total' = count_rows(fd)
        /\ attr_rate' = attrition_rate(fd)
        /\ cards' = metric_cards(fd)
        /\ raw_export' = raw_expander(d)
        /\ cleaned_export' = cleaned_expander(fd, fault)
        /\ pdf_file' = IF fault = "none" THEN generate_pdf(fd) ELSE NoPdf
        /\ page' = page_sections(fault)
        /\ exception' = fault

rendered == page # <<>>

-----------------------------------------------------------------------------
(* The session                                                             *)

Init ==
    /\ csv_file \in Datasets
    /\ cache = [loaded |-> FALSE, value |-> <<>>]
    /\ search_id = default_search_id
    /\ dept_filter = default_dept_filter(csv_file)
    /\ role_filter = default_role_filter(csv_file)
    /\ edu_filter = default_edu_filter(csv_file)
    /\ salary_range = default_salary_range(csv_file)
    /\ df = <<>>
    /\ filtered_df = <<>>
    /\ total = 0
    /\ attr_rate = NaN
    /\ cards = metric_cards(<<>>)
    /\ raw_export = NoExport
    /\ cleaned_export = NoExport
    /\ pdf_file = NoPdf
    /\ page = <<>>
    /\ exception = "none"

Toggle(S, v) == IF v \in S THEN S \ {v} ELSE S \cup {v}

\* The browser opens the page: the first execution, widgets at defaults.
FirstRun ==
    /\ ~rendered
    /\ \E fault \in Faults :
        Script(search_id, dept_filter, role_filter, edu_filter, salary_range,
               fault)

\* The user clicks a download button or reloads: the same widget values.
Rerun ==
    /\ rendered
    /\ \E fault \in Faults :
        Script(search_id, dept_filter, role_filter, edu_filter, salary_range,
               fault)

TypeSearch ==
    /\ rendered
    /\ \E s \in SearchTexts \ {search_id}, fault \in Faults :
        Script(s, dept_filter, role_filter, edu_filter, salary_range, fault)

ToggleDept ==
    /\ rendered
    /\ \E v \in unique(df, "Department"), fault \in Faults :
        Script(search_id, Toggle(dept_filter, v), role_filter, edu_filter,
               salary_range, fault)

ToggleRole ==
    /\ rendered
    /\ \E v \in unique(df, "JobRole"), fault \in Faults :
        Script(search_id, dept_filter, Toggle(role_filter, v), edu_filter,
               salary_range, fault)

ToggleEdu ==
    /\ rendered
    /\ \E v \in unique(df, "EducationField"), fault \in Faults :
        Script(search_id, dept_filter, role_filter, Toggle(edu_filter, v),
               salary_range, fault)

MoveSlider ==
    /\ rendered
    /\ \E lo \in min_sal(df)..max_sal(df), hi \in min_sal(df)..max_sal(df),
          fault \in Faults :
        /\ lo <= hi
        /\ <<lo, hi>> # salary_range
        /\ Script(search_id, dept_filter, role_filter, edu_filter, <<lo, hi>>,
                  fault)

Next ==
    \/ FirstRun
    \/ Rerun
    \/ TypeSearch
    \/ ToggleDept
    \/ ToggleRole
    \/ ToggleEdu
    \/ MoveSlider

Spec == Init /\ [][Next]_vars

-----------------------------------------------------------------------------
(* The filter step applied to arbitrary criteria: the widgets' limits (a   *)
(* slider keeps low <= high, a multiselect offers only values of the data) *)
(* are lifted, and nothing fails.                                          *)

ApplyFirst ==
    /\ ~rendered
    /\ Script(search_id, dept_filter, role_filter, edu_filter, salary_range,
              "none")

ApplySearch ==
    /\ rendered
    /\ \E s \in SearchTexts \ {search_id} :
        Script(s, dept_filter, role_filter, edu_filter, salary_range, "none")

ApplyDepts ==
    /\ rendered
    /\ \E v \in unique(Pool, "Department") :
        Script(search_id, Toggle(dept_filter, v), role_filter, edu_filter,
               salary_range, "none")

ApplyRoles ==
    /\ rendered
    /\ \E v \in unique(Pool, "JobRole") :
        Script(search_id, dept_filter, Toggle(role_filter, v), edu_filter,
               salary_range, "none")

ApplyEdus ==
    /\ rendered
    /\ \E v \in unique(Pool, "EducationField") :
        Script(search_id, dept_filter, role_filter, Toggle(edu_filter, v),
               salary_range, "none")

ApplyRange ==
    /\ rendered
    /\ \E lo \in SalaryEnds, hi \in SalaryEnds :
        /\ <<lo, hi>> # salary_range
        /\ Script(search_id, dept_filter, role_filter, edu_filter, <<lo, hi>>,
                  "none")

ApplyNext ==
    \/ ApplyFirst
    \/ ApplySearch
    \/ ApplyDepts
    \/ ApplyRoles
    \/ ApplyEdus
    \/ ApplyRange

ApplySpec == Init /\ [][ApplyNext]_vars

-----------------------------------------------------------------------------
(* Properties                                                              *)

RowSet(d) == { d[i] : i \in 1..Len(d) }

\* the records of d whose identifier, as text, is sid
IdMatches(d, sid) ==
    { r \in RowSet(d) : astype_str(r.EmployeeNumber) = sid }

\* a record passes the four sidebar filters
PassesAll(r) ==
    /\ r.Department \in dept_filter
    /\ r.JobRole \in role_filter
    /\ r.EducationField \in edu_filter
    /\ salary_range[1] * r.MonthlyIncome.den <= r.MonthlyIncome.num
    /\ r.MonthlyIncome.num <= salary_range[2] * r.MonthlyIncome.den

AtDefaults ==
    /\ search_id = <<>>
    /\ dept_filter = unique(df, "Department")
    /\ role_filter = unique(df, "JobRole")
    /\ edu_filter = unique(df, "EducationField")
    /\ salary_range = <<min_sal(df), max_sal(df)>>

Leavers(d) == { i \in 1..Len(d) : d[i].Attrition = "Yes" }

\* C1: with a non-empty search text the view holds exactly the records
\* whose EmployeeNumber as text equals it, at most one of them, and a step
\* that keeps the search text leaves the view as it was, whatever happened
\* to the four other filters.
C1_IdentifierOverride ==
    [][ search_id' # <<>> =>
          /\ RowSet(filtered_df') = IdMatches(df', search_id')
          /\ Len(filtered_df') = Cardinality(IdMatches(df', search_id'))
          /\ Len(filtered_df') <= 1
          /\ (rendered /\ search_id = search_id' => filtered_df' = filtered_df)
      ]_vars

C1_Witness ==
    /\ rendered
    /\ search_id = <<"2">>
    /\ Len(filtered_df) = 1
    /\ filtered_df[1].EmployeeNumber = 2
    /\ filtered_df[1].Department \notin dept_filter

\* C2: with an empty search text a record of the dataset is in the view
\* exactly when its department, role and education field are selected and
\* its income lies in the range, both ends included; so an empty selection
\* or a range with low above high gives an empty view.
C2_ConjunctiveFilter ==
    rendered /\ search_id = <<>> =>
        /\ RowSet(filtered_df) = { r \in RowSet(df) : PassesAll(r) }
        /\ Len(filtered_df) = Cardinality(RowSet(filtered_df))
        /\ (\/ dept_filter = {}
            \/ role_filter = {}
            \/ edu_filter = {}
            \/ salary_range[1] > salary_range[2]) => filtered_df = <<>>

C2_Witness ==
    /\ rendered
    /\ search_id = <<>>
    /\ salary_range[1] > salary_range[2]
    /\ dept_filter = unique(df, "Department")
    /\ role_filter = unique(df, "JobRole")
    /\ edu_filter = unique(df, "EducationField")
    /\ Len(df) = 2
    /\ filtered_df = <<>>

\* C3: on an empty view no card of the dashboard and no line of the
\* report's summary shows NaN.
C3_EmptyViewPolicy ==
    rendered /\ filtered_df = <<>> =>
        /\ cards.attrition_rate.text # "nan"
        /\ cards.avg_satisfaction.text # "nan"
        /\ cards.avg_age.text # "nan"
        /\ pdf_file.built =>
              /\ pdf_file.attr_rate.text # "nan"
              /\ pdf_file.avg_age.text # "nan"
              /\ pdf_file.avg_sat.text # "nan"

\* C4: on a non-empty view the attrition rate, on the dashboard and in the
\* report, is the number of records with Attrition 'Yes' over the number of
\* records, times 100.
C4_AttritionRate ==
    rendered /\ filtered_df # <<>> =>
        LET yes == Cardinality(Leavers(filtered_df))
            n == Len(filtered_df)
            IsRate(x) == ~x.nan /\ x.num * n = 100 * yes * x.den
        IN  /\ IsRate(attr_rate)
            /\ IsRate(cards.attrition_rate.value)
            /\ pdf_file.built => IsRate(pdf_file.attr_rate.value)

C4_Witness ==
    /\ rendered
    /\ Len(df) > 1
    /\ Len(filtered_df) = 1
    /\ filtered_df[1].Attrition = "Yes"
    /\ attr_rate.num = 100 * attr_rate.den
    /\ pdf_file.built
    /\ pdf_file.attr_rate.value = attr_rate

\* C5: filtering the view again with the same criteria gives the view.
C5_Idempotent ==
    rendered =>
        filtered_view(filtered_df, search_id, dept_filter, role_filter,
                      edu_filter, salary_range) = filtered_df

C5_Witness ==
    /\ rendered
    /\ search_id = <<>>
    /\ Len(df) = 3
    /\ Len(filtered_df) = 1
    /\ filtered_df[1] = df[2]

\* C6: the total on the dashboard, the count of the cleaned-data export and
\* the total written into the report all equal the number of records of
\* the view as it stands after the identifier override.
C6_CountConsistency ==
    rendered =>
        /\ total = Len(filtered_df)
        /\ cards.total_staff = Len(filtered_df)
        /\ cleaned_export.count = Len(filtered_df)
        /\ pdf_file.built => pdf_file.total = Len(filtered_df)

C6_Witness ==
    /\ rendered
    /\ search_id # <<>>
    /\ pdf_file.built
    /\ pdf_file.total = 1
    /\ cleaned_export.count = 1
    /\ total = 1
    /\ Cardinality({ r \in RowSet(df) : PassesAll(r) }) # 1

\* C7: when an export fails the rest of the page is still produced and the
\* dataset and the filter state stay usable.
C7_ExportFailureIsolation ==
    rendered /\ exception # "none" =>
        /\ \A k \in 1..Len(Sections) :
              \E j \in 1..Len(page) : page[j] = Sections[k]
        /\ df = csv_file
        /\ cache.loaded /\ cache.value = csv_file

\* C8: after any interactions the dataset is the one loaded at startup, the
\* view is the filter applied to that dataset under the current widget
\* values, and the raw export covers the whole dataset.
C8_HistoryFree ==
    rendered =>
        /\ df = csv_file
        /\ cache = [loaded |-> TRUE, value |-> csv_file]
        /\ RowSet(filtered_df) =
              IF search_id # <<>> THEN IdMatches(csv_file, search_id)
              ELSE { r \in RowSet(csv_file) : PassesAll(r) }
        /\ Len(filtered_df) = Cardinality(RowSet(filtered_df))
        /\ raw_export.count = Len(csv_file)
        /\ raw_export.download.lines = csv_file

C8_Witness ==
    /\ rendered
    /\ dept_filter = {}
    /\ salary_range # <<min_sal(df), max_sal(df)>>
    /\ search_id = <<"1", "0">>
    /\ Len(filtered_df) = 1
    /\ Len(df) = 3

\* C9: whatever the view, the report carries the same insight strings in
\* the same order and the same conclusion; only the summary's metrics vary.
C9_StaticNarrative ==
    pdf_file.built =>
        [pdf_file EXCEPT !.total = 0, !.attr_rate = format(NaN, 2),
                         !.avg_age = format(NaN, 1), !.avg_sat = format(NaN, 2)]
            = [NoPdf EXCEPT
                  !.built = TRUE,
                  !.title = "HR Employees Attrition Analysis Report",
                  !.insights = insights, !.conclusion = conclusion]

C9_Witness ==
    /\ pdf_file.built
    /\ filtered_df = <<>>
    /\ Len(pdf_file.insights) = 5
    /\ pdf_file.total = 0

\* C10: with every widget at its default the view is the whole dataset.
C10_DefaultsSelectEverything ==
    rendered /\ AtDefaults => filtered_df = df

====
